---- MODULE Spec2Model ----
(***************************************************************************)
(* tab_to_notes.py: ASCII tablature to note names.                         *)
(*                                                                         *)
(* Text is a sequence of one-character strings.  Column c of a line        *)
(* (0-based, as in the source) is line[c + 1].  A Python dict is a         *)
(* sequence of entries in insertion order.                                 *)
(***************************************************************************)
EXTENDS Integers, Sequences, FiniteSets, TLC

VARIABLES
    settings,           \* the settings dict built by the command line
    pc,                 \* position of the running function
    \* proces_tabdict / extract_notes / group_by_timing / format_notedict
    tabdict,            \* OrderedDict: string label -> tab line
    notedict,           \* extract_notes' result
    all_frets,          \* group_by_timing: the sorted (string, pos, fret_info) list
    fi,                 \* group_by_timing: tokens of all_frets already placed
    timing_groups,      \* group_by_timing: dict pos -> group
    sorted_positions,   \* format_notedict
    si,                 \* format_notedict: positions already visited
    covered_positions,  \* format_notedict
    chords,             \* format_notedict: (pos, chord, is_uncertain) of every rendering
    result,             \* format_notedict
    output_lines,       \* format_notedict
    \* proces_doc
    doc,                \* the lines read so far
    resultdoc,
    tab,
    string_nr,
    flushed,            \* the tabdicts handed to proces_tabdict, in call order
    \* GetNote / get_note_number
    stringNote,
    fretNum,
    name,
    note_number,
    \* analyze_chord
    notes,
    analysis

vars == <<settings, pc, tabdict, notedict, all_frets, fi, timing_groups,
          sorted_positions, si, covered_positions, chords, result, output_lines,
          doc, resultdoc, tab, string_nr, flushed,
          stringNote, fretNum, name, note_number, notes, analysis>>

groupVars == <<notedict, all_frets, fi, timing_groups, sorted_positions, si,
               covered_positions, chords, result, output_lines>>
docVars == <<doc, resultdoc, tab, string_nr, flushed>>
noteVars == <<stringNote, fretNum, name, note_number>>
chordVars == <<notes, analysis>>

-----------------------------------------------------------------------------
(* Bounds of the model *)

NumStrings == 3
LineLen == 4
MaxMarks == 5
MaxTechMarks == 2
MaxDocLen == 7
MaxFret == 24
MaxTranspose == 12
MaxChord == 3
MaxChordFret == 11

-----------------------------------------------------------------------------
(* Text *)

Digits == {"0", "1", "2", "3", "4", "5", "6", "7", "8", "9"}
DigitChars == <<"0", "1", "2", "3", "4", "5", "6", "7", "8", "9">>
Whitespace == {" ", "\n", "\t"}

Min(S) == CHOOSE x \in S : \A y \in S : x <= y
Abs(x) == IF x < 0 THEN -x ELSE x

DigitVal(ch) == (CHOOSE d \in 1..10 : DigitChars[d] = ch) - 1

IsDigit(ch) == ch \in Digits

\* str.isnumeric() / str.isdigit() on ASCII text
IsNumeric(s) == Len(s) > 0 /\ \A i \in 1..Len(s) : IsDigit(s[i])

RECURSIVE StrToInt(_)
StrToInt(s) ==
    IF Len(s) = 0 THEN 0
    ELSE 10 * StrToInt(SubSeq(s, 1, Len(s) - 1)) + DigitVal(s[Len(s)])

RECURSIVE NatToStr(_)
NatToStr(n) ==
    IF n < 10 THEN <<DigitChars[n + 1]>>
    ELSE NatToStr(n \div 10) \o <<DigitChars[(n % 10) + 1]>>

IntToStr(n) == IF n < 0 THEN <<"-">> \o NatToStr(-n) ELSE NatToStr(n)

LowerChars == <<"a", "b", "c", "d", "e", "f", "g", "h", "i", "j", "k", "l", "m",
                "n", "o", "p", "q", "r", "s", "t", "u", "v", "w", "x", "y", "z">>
UpperChars == <<"A", "B", "C", "D", "E", "F", "G", "H", "I", "J", "K", "L", "M",
                "N", "O", "P", "Q", "R", "S", "T", "U", "V", "W", "X", "Y", "Z">>

UpperChar(ch) ==
    IF \E k \in 1..26 : LowerChars[k] = ch
    THEN UpperChars[CHOOSE k \in 1..26 : LowerChars[k] = ch]
    ELSE ch

Upper(s) == [i \in 1..Len(s) |-> UpperChar(s[i])]

StartsWith(s, p) == Len(s) >= Len(p) /\ SubSeq(s, 1, Len(p)) = p

\* str.find from position i (1-based); 0 when sub does not occur
RECURSIVE Find(_, _, _)
Find(s, sub, i) ==
    IF i + Len(sub) - 1 > Len(s) THEN 0
    ELSE IF SubSeq(s, i, i + Len(sub) - 1) = sub THEN i
    ELSE Find(s, sub, i + 1)

Contains(s, sub) == Find(s, sub, 1) # 0

\* str.replace(old, new)
RECURSIVE Replace(_, _, _)
Replace(s, old, new) ==
    LET k == Find(s, old, 1)
    IN  IF Len(old) = 0 \/ k = 0 THEN s
        ELSE SubSeq(s, 1, k - 1) \o new
             \o Replace(SubSeq(s, k + Len(old), Len(s)), old, new)

\* str.strip()
RECURSIVE LStrip(_)
LStrip(s) ==
    IF Len(s) > 0 /\ s[1] \in Whitespace THEN LStrip(Tail(s)) ELSE s

RECURSIVE RStrip(_)
RStrip(s) ==
    IF Len(s) > 0 /\ s[Len(s)] \in Whitespace
    THEN RStrip(SubSeq(s, 1, Len(s) - 1)) ELSE s

Strip(s) == LStrip(RStrip(s))

\* s[:-1]
DropLast(s) == SubSeq(s, 1, Len(s) - 1)

\* sep.join(parts)
RECURSIVE Join(_, _)
Join(sep, parts) ==
    IF Len(parts) = 0 THEN <<>>
    ELSE IF Len(parts) = 1 THEN parts[1]
    ELSE parts[1] \o sep \o Join(sep, Tail(parts))

\* s[:n]
Take(s, n) == SubSeq(s, 1, IF n < Len(s) THEN n ELSE Len(s))

\* concatenation of a sequence of sequences
RECURSIVE Concat(_)
Concat(ss) == IF Len(ss) = 0 THEN <<>> ELSE ss[1] \o Concat(Tail(ss))

-----------------------------------------------------------------------------
(* Pitch tables *)

NoteNames ==
    <<  <<"C">>, <<"C", "#">>, <<"D">>, <<"D", "#">>, <<"E">>, <<"F">>,
        <<"F", "#">>, <<"G">>, <<"G", "#">>, <<"A">>, <<"A", "#">>, <<"B">> >>

FlatNoteNames ==
    <<  <<"C">>, <<"D", "b">>, <<"D">>, <<"E", "b">>, <<"E">>, <<"F">>,
        <<"G", "b">>, <<"G">>, <<"A", "b">>, <<"A">>, <<"B", "b">>, <<"B">> >>

SHARP_NAMES(n) == NoteNames[n + 1]
FLAT_NAMES(n) == FlatNoteNames[n + 1]

InNOTES_SHARPS(s) == \E n \in 0..11 : SHARP_NAMES(n) = s
InNOTES_FLATS(s) == \E n \in 0..11 : FLAT_NAMES(n) = s
NOTES_SHARPS(s) == CHOOSE n \in 0..11 : SHARP_NAMES(n) = s
NOTES_FLATS(s) == CHOOSE n \in 0..11 : FLAT_NAMES(n) = s

\* the -s1 .. -s6 defaults
tuning ==
    <<  <<"E", "4">>, <<"B", "3">>, <<"G", "3">>,
        <<"D", "3">>, <<"A", "3">>, <<"E", "2">> >>

DefaultSettings ==
    [ chord_start |-> <<"[">>, chord_end |-> <<"]">>, chord_separator |-> <<"_">>,
      add_space |-> FALSE, transpose |-> 0,
      write_sharps |-> TRUE, write_flats |-> FALSE,
      write_techniques |-> TRUE, write_octaves |-> TRUE,
      chord_analysis |-> FALSE, tuning_separator |-> <<"|">> ]

-----------------------------------------------------------------------------
(* Dicts: sequences of [key, val] entries in insertion order *)

DictKeys(d) == {d[i].key : i \in 1..Len(d)}
DictHas(d, k) == k \in DictKeys(d)
DictGet(d, k) == d[CHOOSE i \in 1..Len(d) : d[i].key = k].val

\* d[k] = v: a present key keeps its place and gets the new value
DictSet(d, k, v) ==
    IF DictHas(d, k)
    THEN [i \in 1..Len(d) |-> IF d[i].key = k THEN [key |-> k, val |-> v] ELSE d[i]]
    ELSE Append(d, [key |-> k, val |-> v])

-----------------------------------------------------------------------------
(* Tokenizer: fretsFromLine, addTechniquesFromLine, extract_notes *)

\* the character classes of the regular expressions \d+ and [^-\d+]+
InClass(kind, ch) ==
    IF kind = "fret" THEN ch \in Digits
    ELSE ch \notin (Digits \cup {"-", "+"})

\* last column of the maximal run of kind characters that starts at column c
RECURSIVE RunEnd(_, _, _)
RunEnd(line, kind, c) ==
    IF c + 1 < Len(line) /\ InClass(kind, line[c + 2])
    THEN RunEnd(line, kind, c + 1)
    ELSE c

\* the dict value built from a match m: m.start() = s, m.end() - 1 = e
FretInfo(line, s, e) ==
    [value |-> SubSeq(line, s + 1, e + 1), start |-> s, end |-> e,
     width |-> Len(SubSeq(line, s + 1, e + 1))]

\* re.finditer: the non-overlapping matches from column c on, left to right
RECURSIVE FindIter(_, _, _)
FindIter(line, kind, c) ==
    IF c >= Len(line) THEN <<>>
    ELSE IF InClass(kind, line[c + 1])
         THEN <<FretInfo(line, c, RunEnd(line, kind, c))>>
              \o FindIter(line, kind, RunEnd(line, kind, c) + 1)
         ELSE FindIter(line, kind, c + 1)

\* lines 90-95: each match is stored under its start column
ByStart(ms) == [i \in 1..Len(ms) |-> [key |-> ms[i].start, val |-> ms[i]]]

fretsFromLine(line) == ByStart(FindIter(line, "fret", 0))

RECURSIVE AddMatches(_, _)
AddMatches(ms, fret_position_dict) ==
    IF Len(ms) = 0 THEN fret_position_dict
    ELSE AddMatches(Tail(ms),
            IF ~DictHas(fret_position_dict, ms[1].start)
            THEN DictSet(fret_position_dict, ms[1].start, ms[1])
            ELSE fret_position_dict)

addTechniquesFromLine(line, fret_position_dict) ==
    AddMatches(FindIter(line, "technique", 0), fret_position_dict)

\* lines 329-332
LineFrets(line, frets, st) ==
    IF st.write_techniques THEN addTechniquesFromLine(line, frets) ELSE frets

\* the notedict of extract_notes (line_length is returned and never read)
RECURSIVE ExtractFrom(_, _, _)
ExtractFrom(td, st, acc) ==
    IF Len(td) = 0 THEN acc
    ELSE ExtractFrom(Tail(td), st,
            DictSet(acc, td[1].key, LineFrets(td[1].val, fretsFromLine(td[1].val), st)))

extract_notes(td, st) == ExtractFrom(td, st, <<>>)

-----------------------------------------------------------------------------
(* Timing Grouper: group_by_timing *)

\* all_frets before the sort: (string_note, pos, fret_info) in dict order
RECURSIVE CollectFrets(_)
CollectFrets(nd) ==
    IF Len(nd) = 0 THEN <<>>
    ELSE [j \in 1..Len(nd[1].val) |->
            [string |-> nd[1].key, pos |-> nd[1].val[j].key,
             info |-> nd[1].val[j].val]]
         \o CollectFrets(Tail(nd))

\* list.sort(key = pos) is stable: x goes after every element with pos <= its pos
RECURSIVE InsertByPos(_, _)
InsertByPos(sorted, x) ==
    IF Len(sorted) = 0 THEN <<x>>
    ELSE IF sorted[Len(sorted)].pos <= x.pos THEN Append(sorted, x)
    ELSE Append(InsertByPos(SubSeq(sorted, 1, Len(sorted) - 1), x),
                sorted[Len(sorted)])

RECURSIVE SortByPos(_)
SortByPos(fs) ==
    IF Len(fs) = 0 THEN <<>>
    ELSE InsertByPos(SortByPos(SubSeq(fs, 1, Len(fs) - 1)), fs[Len(fs)])

\* lines 105-108 without the sort of line 111
AllFretsUnsorted(nd) == CollectFrets(nd)

AllFrets(nd) == SortByPos(CollectFrets(nd))

\* the test of lines 126-128
Overlap(fret_info, existing_fret) ==
    (fret_info.start .. fret_info.end)
        \cap (existing_fret.start .. existing_fret.end) # {}

\* lines 126-128 without the test of the end columns
PositionsMatchNoEnd(fret_info, existing_fret) ==
    \/ Overlap(fret_info, existing_fret)
    \/ Abs(fret_info.start - existing_fret.start) <= 1

PositionsMatch(fret_info, existing_fret) ==
    \/ Overlap(fret_info, existing_fret)
    \/ Abs(fret_info.start - existing_fret.start) <= 1
    \/ Abs(fret_info.end - existing_fret.end) <= 1

\* lines 131-132 with "<=" for "<"
UncertainAlignmentOrEqual(fret_info, existing_fret) ==
    /\ fret_info.start <= existing_fret.start
    /\ fret_info.width = 1
    /\ existing_fret.width > 1

\* lines 131-132
UncertainAlignment(fret_info, existing_fret) ==
    /\ fret_info.start < existing_fret.start
    /\ fret_info.width = 1
    /\ existing_fret.width > 1

\* index of the first member of group that fret_info matches, 0 if none
FirstMatch(group, fret_info) ==
    LET hits == {k \in 1..Len(group) : PositionsMatch(fret_info, group[k].info)}
    IN  IF hits = {} THEN 0 ELSE Min(hits)

\* index of the first group, in dict order, with a matching member, 0 if none
FindGroup(groups, fret_info) ==
    LET hits == {g \in 1..Len(groups) : FirstMatch(groups[g].val, fret_info) # 0}
    IN  IF hits = {} THEN 0 ELSE Min(hits)

GroupEntry(f, uncertain) ==
    [string |-> f.string, pos |-> f.pos, info |-> f.info, uncertain |-> uncertain]

\* lines 134-136: f joins group g beside its first matching member
JoinGroup(groups, g, f) ==
    LET existing == groups[g].val[FirstMatch(groups[g].val, f.info)]
    IN  [groups EXCEPT ![g].val =
            Append(@, GroupEntry(f, UncertainAlignment(f.info, existing.info)))]

\* line 143
OpenGroup(groups, f) == DictSet(groups, f.pos, <<GroupEntry(f, FALSE)>>)

\* the loop body without "group_found = True": line 143 runs for every token
PlaceFretNoFlag(groups, f) ==
    OpenGroup(IF FindGroup(groups, f.info) # 0
              THEN JoinGroup(groups, FindGroup(groups, f.info), f)
              ELSE groups, f)

\* one iteration of the loop of line 115
PlaceFret(groups, f) ==
    IF FindGroup(groups, f.info) # 0
    THEN JoinGroup(groups, FindGroup(groups, f.info), f)
    ELSE OpenGroup(groups, f)

RECURSIVE PlaceAll(_, _)
PlaceAll(groups, fs) ==
    IF Len(fs) = 0 THEN groups ELSE PlaceAll(PlaceFret(groups, fs[1]), Tail(fs))

group_by_timing(nd) == PlaceAll(<<>>, AllFrets(nd))

-----------------------------------------------------------------------------
(* Pitch Resolver: GetNote, get_note_number *)

\* lines 172-176
OctaveOf(base_octave) ==
    IF IsNumeric(base_octave) THEN StrToInt(base_octave) ELSE 0

BaseOctave(label) == OctaveOf(SelectSeq(label, IsDigit))

\* the key of the lookup of lines 178-179
BaseNoteKey(label) == Replace(Upper(label), IntToStr(BaseOctave(label)), <<>>)

\* the unguarded NOTES_SHARPS lookup raises KeyError
GetNoteRaises(label, fret) == IsNumeric(fret) /\ ~InNOTES_SHARPS(BaseNoteKey(label))

\* lines 180-182
NoteNum(label, fret, st) ==
    NOTES_SHARPS(BaseNoteKey(label)) + StrToInt(fret) + st.transpose

\* lines 184-187: write_sharps is "not args.flats", write_flats is "args.flats"
PitchName(fretNoteNum, st) ==
    IF st.write_flats THEN FLAT_NAMES(fretNoteNum) ELSE SHARP_NAMES(fretNoteNum)

\* lines 191-193
AddSpace(note, st) ==
    IF st.add_space /\ ~(Contains(note, <<"#">>) \/ Contains(note, <<"b">>))
    THEN note \o <<" ">>
    ELSE note

\* lines 181-189: the name of absolute semitone noteNum above base_octave
NoteName(noteNum, base_octave, st) ==
    IF st.write_octaves
    THEN PitchName(noteNum % 12, st) \o IntToStr((noteNum \div 12) + base_octave)
    ELSE PitchName(noteNum % 12, st)

GetNote(label, fret, st) ==
    IF ~IsNumeric(fret) THEN fret
    ELSE AddSpace(NoteName(NoteNum(label, fret, st), BaseOctave(label), st), st)

\* get_note_number's None
None == -1

NotDigit(ch) == ~IsDigit(ch)

\* lines 204-209
LookupNote(clean_note) ==
    IF InNOTES_SHARPS(clean_note) THEN NOTES_SHARPS(clean_note)
    ELSE IF InNOTES_FLATS(clean_note) THEN NOTES_FLATS(clean_note)
    ELSE None

get_note_number(note_name) == LookupNote(SelectSeq(note_name, NotDigit))

-----------------------------------------------------------------------------
(* Chord/Interval Classifier: analyze_chord, analyze_interval, analyze_triad *)

interval_names ==
    <<  <<"u", "n", "i", "s", "o", "n">>,
        <<"m", "i", "n", "o", "r", " ", "2", "n", "d">>,
        <<"m", "a", "j", "o", "r", " ", "2", "n", "d">>,
        <<"m", "i", "n", "o", "r", " ", "3", "r", "d">>,
        <<"m", "a", "j", "o", "r", " ", "3", "r", "d">>,
        <<"p", "e", "r", "f", "e", "c", "t", " ", "4", "t", "h">>,
        <<"t", "r", "i", "t", "o", "n", "e">>,
        <<"p", "e", "r", "f", "e", "c", "t", " ", "5", "t", "h">>,
        <<"m", "i", "n", "o", "r", " ", "6", "t", "h">>,
        <<"m", "a", "j", "o", "r", " ", "6", "t", "h">>,
        <<"m", "i", "n", "o", "r", " ", "7", "t", "h">>,
        <<"m", "a", "j", "o", "r", " ", "7", "t", "h">> >>

CHORD_ABBREVIATIONS ==
    <<  [key |-> <<"u", "n", "i", "s", "o", "n">>, val |-> <<"1">>],
        [key |-> <<"m", "i", "n", "o", "r", " ", "2", "n", "d">>, val |-> <<"m", "2">>],
        [key |-> <<"m", "a", "j", "o", "r", " ", "2", "n", "d">>, val |-> <<"M", "2">>],
        [key |-> <<"m", "i", "n", "o", "r", " ", "3", "r", "d">>, val |-> <<"m", "3">>],
        [key |-> <<"m", "a", "j", "o", "r", " ", "3", "r", "d">>, val |-> <<"M", "3">>],
        [key |-> <<"p", "e", "r", "f", "e", "c", "t", " ", "4", "t", "h">>, val |-> <<"P", "4">>],
        [key |-> <<"t", "r", "i", "t", "o", "n", "e">>, val |-> <<"T", "T">>],
        [key |-> <<"p", "e", "r", "f", "e", "c", "t", " ", "5", "t", "h">>, val |-> <<"P", "5">>],
        [key |-> <<"m", "i", "n", "o", "r", " ", "6", "t", "h">>, val |-> <<"m", "6">>],
        [key |-> <<"m", "a", "j", "o", "r", " ", "6", "t", "h">>, val |-> <<"M", "6">>],
        [key |-> <<"m", "i", "n", "o", "r", " ", "7", "t", "h">>, val |-> <<"m", "7">>],
        [key |-> <<"m", "a", "j", "o", "r", " ", "7", "t", "h">>, val |-> <<"M", "7">>] >>

\* the interval_names of analyze_triad, for the intervals 1..11
triad_interval_names ==
    <<  <<"m", "2">>, <<"M", "2">>, <<"m", "3">>, <<"M", "3">>, <<"P", "4">>, <<"T", "T">>, <<"P", "5">>, <<"m", "6">>, <<"M", "6">>, <<"m", "7">>, <<"M", "7">> >>

\* sorted(): ascending insertion of integers
RECURSIVE InsertInt(_, _)
InsertInt(sorted, x) ==
    IF Len(sorted) = 0 THEN <<x>>
    ELSE IF sorted[Len(sorted)] <= x THEN Append(sorted, x)
    ELSE Append(InsertInt(SubSeq(sorted, 1, Len(sorted) - 1), x),
                sorted[Len(sorted)])

RECURSIVE SortInts(_)
SortInts(xs) ==
    IF Len(xs) = 0 THEN <<>>
    ELSE InsertInt(SortInts(SubSeq(xs, 1, Len(xs) - 1)), xs[Len(xs)])

Elems(xs) == {xs[i] : i \in 1..Len(xs)}

\* lines 220-224: the distinct recognised note numbers, first seen first
\* lines 223-224
AddNoteNum(note_nums, num) ==
    IF num # None /\ num \notin Elems(note_nums)
    THEN Append(note_nums, num) ELSE note_nums

RECURSIVE UniqueNoteNums(_, _)
UniqueNoteNums(ns, note_nums) ==
    IF Len(ns) = 0 THEN note_nums
    ELSE UniqueNoteNums(Tail(ns), AddNoteNum(note_nums, get_note_number(ns[1])))

\* lines 259-262
Abbreviated(interval_name) ==
    IF DictHas(CHORD_ABBREVIATIONS, interval_name)
    THEN <<DictGet(CHORD_ABBREVIATIONS, interval_name)>>
    ELSE <<interval_name>>

analyze_interval(note_nums) ==
    Abbreviated(interval_names[((note_nums[2] - note_nums[1]) % 12) + 1])

\* lines 272-276: the intervals of the other notes above root
OtherNotes(note_nums, root) == SelectSeq(note_nums, LAMBDA n : n # root)

IntervalsAbove(others, root) ==
    SortInts([k \in 1..Len(others) |-> (others[k] - root) % 12])

RootIntervals(note_nums, root) == IntervalsAbove(OtherNotes(note_nums, root), root)

\* lines 281-294: the label of one candidate root, <<>> when no pattern matches
PatternOf(intervals, root_name) ==
    LET has(x) == x \in Elems(intervals)
    IN  IF has(3) /\ has(7) THEN << root_name \o <<"m">> >>
        ELSE IF has(4) /\ has(7) THEN << root_name \o <<"m", "a", "j">> >>
        ELSE IF has(3) /\ has(6) THEN << root_name \o <<"d", "i", "m">> >>
        ELSE IF has(4) /\ has(8) THEN << root_name \o <<"a", "u", "g">> >>
        ELSE IF has(7) /\ Len(intervals) = 1 THEN << root_name \o <<"5">> >>
        ELSE IF has(4) /\ Len(intervals) = 1
             THEN << root_name \o <<"(", "M", "3", ")">> >>
        ELSE IF has(3) /\ Len(intervals) = 1
             THEN << root_name \o <<"(", "m", "3", ")">> >>
        ELSE <<>>

TriadPattern(note_nums, root) ==
    PatternOf(RootIntervals(note_nums, root), SHARP_NAMES(root))

\* lines 308-315
IntervalAbbrev(interval) ==
    IF interval \in 1..11 THEN triad_interval_names[interval]
    ELSE IntToStr(interval)

\* lines 302-315
FallbackOf(intervals, root_name) ==
    LET has(x) == x \in Elems(intervals)
    IN  IF has(5) /\ has(7) THEN << root_name \o <<"s", "u", "s", "4">> >>
        ELSE IF has(2) /\ has(7) THEN << root_name \o <<"s", "u", "s", "2">> >>
        ELSE << root_name \o <<"(">>
                \o Join(<<"+">>, [k \in 1..Len(intervals) |->
                                    IntervalAbbrev(intervals[k])])
                \o <<")">> >>

\* lines 297-315
TriadFallback(note_nums) ==
    FallbackOf([k \in 1..(Len(note_nums) - 1) |->
                    (note_nums[k + 1] - note_nums[1]) % 12],
               SHARP_NAMES(note_nums[1]))

\* line 297
OrFallback(results, note_nums) ==
    IF Len(results) = 0 THEN TriadFallback(note_nums) ELSE results

analyze_triad(note_nums) ==
    OrFallback(Concat([i \in 1..Len(note_nums) |->
                        TriadPattern(note_nums, note_nums[i])]), note_nums)

\* lines 228-235
Classify(note_nums) ==
    IF Len(note_nums) = 1 THEN << <<"u", "n", "i", "s", "o", "n">> >>
    ELSE IF Len(note_nums) = 2 THEN analyze_interval(note_nums)
    ELSE IF Len(note_nums) >= 3 THEN analyze_triad(note_nums)
    ELSE <<>>

analyze_chordOfAny(ns) ==
    IF Len(ns) < 1 THEN <<>>
    ELSE Classify(SortInts(UniqueNoteNums(ns, <<>>)))

analyze_chord(ns) ==
    IF Len(ns) < 2 THEN <<>>
    ELSE Classify(SortInts(UniqueNoteNums(ns, <<>>)))

-----------------------------------------------------------------------------
(* Tab-Block Formatter: format_notedict, proces_tabdict *)

\* sorted(timing_groups.keys())
SortedPositions(groups) == SortInts([g \in 1..Len(groups) |-> groups[g].key])

\* lines 361-366: the note names of a group, in member order
Chord(group, st) ==
    [k \in 1..Len(group) |-> GetNote(group[k].string, group[k].info.value, st)]

\* lines 362-363
IsUncertain(group) == \E k \in 1..Len(group) : group[k].uncertain

\* lines 369-370
GroupColumns(group) ==
    UNION {group[k].info.start .. group[k].info.end : k \in 1..Len(group)}

\* lines 386-397
ChordStr(chord, is_uncertain, st) ==
    (IF Len(chord) = 1 THEN chord[1]
     ELSE IF Len(chord) > 1
          THEN st.chord_start \o Join(st.chord_separator, chord) \o st.chord_end
     ELSE <<"-">>)
    \o (IF is_uncertain THEN <<"?">> ELSE <<>>)

\* lines 374-383: the entry of the chord analysis line
AnalysisText(chord_labels) ==
    IF Len(chord_labels) > 0
    THEN Join(<<"/">>, Take(chord_labels, 2))
    ELSE <<"-">>

ChordText(chord) == AnalysisText(analyze_chord(chord))

\* lines 356-399: the renderings with those of group added
Rendered(acc, group, chord, st) ==
    [result |-> Append(acc.result, ChordStr(chord, IsUncertain(group), st)),
     chord_analysis |-> Append(acc.chord_analysis, ChordText(chord))]

RenderGroup(acc, group, st) == Rendered(acc, group, Chord(group, st), st)

\* the loop of line 352, from position index k on
RECURSIVE FormatLoop(_, _, _, _, _, _)
FormatLoop(groups, positions, k, covered, acc, st) ==
    IF k > Len(positions) THEN acc
    ELSE IF positions[k] \in covered
         THEN FormatLoop(groups, positions, k + 1, covered, acc, st)
    ELSE FormatLoop(groups, positions, k + 1,
            covered \cup GroupColumns(DictGet(groups, positions[k])),
            RenderGroup(acc, DictGet(groups, positions[k]), st), st)

\* lines 402-410
OutputLines(res, chord_analysis, st) ==
    (IF st.chord_analysis /\ Len(chord_analysis) > 0
     THEN << Join(<<" ">>, chord_analysis) \o <<"\n">> >> ELSE <<>>)
    \o << <<"|">> \o Join(<<"-", "-">>, res) \o <<"|">> \o <<"\n">> >>

\* lines 345-410, for the groups of line 342
FormatGroups(groups, st) ==
    FormatLoop(groups, SortedPositions(groups), 1, {},
               [result |-> <<>>, chord_analysis |-> <<>>], st)

LinesOf(acc, st) == OutputLines(acc.result, acc.chord_analysis, st)

\* the lines format_notedict returns
format_notedict(nd, st) == LinesOf(FormatGroups(group_by_timing(nd), st), st)

\* the lines proces_tabdict returns
proces_tabdict(td, st) == format_notedict(extract_notes(td, st), st)

\* a lookup of the block raises KeyError
NotedictRaises(nd) ==
    \E i \in 1..Len(nd) : \E j \in 1..Len(nd[i].val) :
        GetNoteRaises(nd[i].key, nd[i].val[j].val.value)

TabdictRaises(td, st) == NotedictRaises(extract_notes(td, st))

-----------------------------------------------------------------------------
(* One tab block through extract_notes, group_by_timing and format_notedict *)

Columns == (1..NumStrings) \X (1..LineLen)

\* the sets of marked columns: at most MaxMarks columns hold a character other
\* than the hyphen
MarkSets == {P \in SUBSET Columns : Cardinality(P) <= MaxMarks}

\* a marked column holds a digit; in a block of at most MaxTechMarks marks it may
\* hold a technique symbol instead
MarkChars(P) == IF Cardinality(P) <= MaxTechMarks THEN {"1", "h"} ELSE {"1"}

Grid(P, f) ==
    [i \in 1..NumStrings |->
        [c \in 1..LineLen |-> IF <<i, c>> \in P THEN f[<<i, c>>] ELSE "-"]]

\* technique inclusion is switched off only where it can matter
BlockSettings(P) ==
    {[DefaultSettings EXCEPT !.write_techniques = wt] :
        wt \in IF Cardinality(P) <= MaxTechMarks THEN BOOLEAN ELSE {TRUE}}

Idle == <<>>

IdleGroup ==
    /\ notedict = Idle /\ all_frets = Idle /\ fi = 0 /\ timing_groups = Idle
    /\ sorted_positions = Idle /\ si = 0 /\ covered_positions = {}
    /\ chords = Idle /\ result = Idle /\ output_lines = Idle
IdleDoc ==
    /\ doc = Idle /\ resultdoc = Idle /\ tab = FALSE /\ string_nr = 0
    /\ flushed = Idle
IdleNote == stringNote = Idle /\ fretNum = Idle /\ name = Idle /\ note_number = None
IdleChord == notes = Idle /\ analysis = Idle

Init ==
    /\ \E P \in MarkSets : \E f \in [P -> MarkChars(P)] :
        /\ tabdict = [i \in 1..NumStrings |->
                        [key |-> tuning[i], val |-> Grid(P, f)[i]]]
        /\ settings \in BlockSettings(P)
    /\ pc = "extract_notes"
    /\ IdleGroup /\ IdleDoc /\ IdleNote /\ IdleChord

\* proces_tabdict calls extract_notes; format_notedict calls group_by_timing,
\* which collects and sorts all_frets (lines 105-113)
ExtractNotes ==
    /\ pc = "extract_notes"
    /\ notedict' = extract_notes(tabdict, settings)
    /\ all_frets' = AllFrets(notedict')
    /\ fi' = 0
    /\ timing_groups' = <<>>
    /\ pc' = "group_by_timing"
    /\ UNCHANGED <<settings, tabdict, sorted_positions, si, covered_positions,
                   chords, result, output_lines, docVars, noteVars, chordVars>>

\* an iteration of the loop of line 115 that finds a group
GroupJoin ==
    /\ pc = "group_by_timing"
    /\ fi < Len(all_frets)
    /\ FindGroup(timing_groups, all_frets[fi + 1].info) # 0
    /\ timing_groups' = PlaceFret(timing_groups, all_frets[fi + 1])
    /\ fi' = fi + 1
    /\ UNCHANGED <<settings, pc, tabdict, notedict, all_frets, sorted_positions, si,
                   covered_positions, chords, result, output_lines,
                   docVars, noteVars, chordVars>>

\* an iteration of the loop of line 115 that finds none
GroupOpen ==
    /\ pc = "group_by_timing"
    /\ fi < Len(all_frets)
    /\ FindGroup(timing_groups, all_frets[fi + 1].info) = 0
    /\ timing_groups' = PlaceFret(timing_groups, all_frets[fi + 1])
    /\ fi' = fi + 1
    /\ UNCHANGED <<settings, pc, tabdict, notedict, all_frets, sorted_positions, si,
                   covered_positions, chords, result, output_lines,
                   docVars, noteVars, chordVars>>

\* group_by_timing returns; lines 345-350
GroupReturn ==
    /\ pc = "group_by_timing"
    /\ fi = Len(all_frets)
    /\ sorted_positions' = SortedPositions(timing_groups)
    /\ si' = 0
    /\ covered_positions' = {}
    /\ chords' = <<>>
    /\ result' = <<>>
    /\ pc' = "format_notedict"
    /\ UNCHANGED <<settings, tabdict, notedict, all_frets, fi, timing_groups,
                   output_lines, docVars, noteVars, chordVars>>

\* lines 353-354
FormatSkip ==
    /\ pc = "format_notedict"
    /\ si < Len(sorted_positions)
    /\ sorted_positions[si + 1] \in covered_positions
    /\ si' = si + 1
    /\ UNCHANGED <<settings, pc, tabdict, notedict, all_frets, fi, timing_groups,
                   sorted_positions, covered_positions, chords, result,
                   output_lines, docVars, noteVars, chordVars>>

\* lines 356-399
FormatGroup ==
    /\ pc = "format_notedict"
    /\ si < Len(sorted_positions)
    /\ sorted_positions[si + 1] \notin covered_positions
    /\ LET pos == sorted_positions[si + 1]
           group == DictGet(timing_groups, pos)
           chord == Chord(group, settings)
           is_uncertain == IsUncertain(group)
       IN  /\ covered_positions' = covered_positions \cup GroupColumns(group)
           /\ chords' = Append(chords, [pos |-> pos, chord |-> chord,
                                        is_uncertain |-> is_uncertain,
                                        chord_text |-> ChordText(chord)])
           /\ result' = Append(result, ChordStr(chord, is_uncertain, settings))
    /\ si' = si + 1
    /\ UNCHANGED <<settings, pc, tabdict, notedict, all_frets, fi, timing_groups,
                   sorted_positions, output_lines, docVars, noteVars, chordVars>>

\* lines 402-415
FormatReturn ==
    /\ pc = "format_notedict"
    /\ si = Len(sorted_positions)
    /\ output_lines' = OutputLines(result,
                            [k \in 1..Len(chords) |-> chords[k].chord_text], settings)
    /\ pc' = "done"
    /\ UNCHANGED <<settings, tabdict, notedict, all_frets, fi, timing_groups,
                   sorted_positions, si, covered_positions, chords, result,
                   docVars, noteVars, chordVars>>

Next ==
    \/ ExtractNotes
    \/ GroupJoin
    \/ GroupOpen
    \/ GroupReturn
    \/ FormatSkip
    \/ FormatGroup
    \/ FormatReturn

Spec == Init /\ [][Next]_vars

-----------------------------------------------------------------------------
(* Document Driver: proces_doc *)

\* line.split(sep)[0] and line.split(sep, 1)[1], for a line that contains sep
BeforeFirst(line, sep) == SubSeq(line, 1, Find(line, sep, 1) - 1)
AfterFirst(line, sep) == SubSeq(line, Find(line, sep, 1) + Len(sep), Len(line))

\* line 450
LineNoteName(line, st) == Strip(BeforeFirst(line, st.tuning_separator))

\* lines 451-452
IsTuningName(noteName) ==
    \/ InNOTES_SHARPS(Upper(noteName))
    \/ \E n \in 0..11 : Upper(FLAT_NAMES(n)) = Upper(noteName)

\* the branch of the loop body of lines 448-488 that a line takes
LineKind(line, st) ==
    IF ~Contains(line, st.tuning_separator) THEN "other"
    ELSE IF IsTuningName(LineNoteName(line, st)) THEN "labelled"
    ELSE IF LineNoteName(line, st) = <<>> /\ StartsWith(line, st.tuning_separator)
         THEN "unlabelled"
    ELSE "separator"

\* line.split(sep, 1)[1].strip()[:-1]
TabLine(line, st) == DropLast(Strip(AfterFirst(line, st.tuning_separator)))

\* lines 473-475, 482-484, 492-494: the block goes through proces_tabdict
RenderTab(s, st) ==
    IF TabdictRaises(s.tabdict, st) THEN [s EXCEPT !.raised = TRUE]
    ELSE [s EXCEPT !.resultdoc = @ \o proces_tabdict(s.tabdict, st),
                   !.flushed = Append(@, s.tabdict)]

\* lines 476-478, 485-487
ResetTab(s) == [s EXCEPT !.tab = FALSE, !.string_nr = 0, !.tabdict = <<>>]

ResetUnlessRaised(n) == IF n.raised THEN n ELSE ResetTab(n)

FlushTab(s, st) == ResetUnlessRaised(RenderTab(s, st))

\* lines 453-460; tuning[string_nr] raises KeyError outside 1..6
LabelledLine(s, line, st) ==
    LET nr == s.string_nr + 1
        n == [s EXCEPT !.tab = TRUE, !.string_nr = nr]
    IN  IF st.write_octaves
        THEN IF nr \notin DOMAIN tuning THEN [n EXCEPT !.raised = TRUE]
             ELSE [n EXCEPT !.tabdict = DictSet(@, tuning[nr], TabLine(line, st))]
        ELSE [n EXCEPT !.tabdict =
                DictSet(@, LineNoteName(line, st) \o IntToStr(nr), TabLine(line, st))]

\* lines 463-471
UnlabelledLine(s, line, st) ==
    LET nr == s.string_nr + 1
        n == [s EXCEPT !.tab = TRUE, !.string_nr = nr]
    IN  IF nr <= 6
        THEN IF st.write_octaves
             THEN [n EXCEPT !.tabdict = DictSet(@, tuning[nr], TabLine(line, st))]
             ELSE [n EXCEPT !.tabdict =
                    DictSet(@, tuning[nr] \o IntToStr(nr), TabLine(line, st))]
        ELSE n

\* lines 472-478
SeparatorLine(s, line, st) == IF s.tab THEN FlushTab(s, st) ELSE s

\* lines 480-488
AppendLine(n, line) ==
    IF n.raised THEN n ELSE [n EXCEPT !.resultdoc = Append(@, line)]

OtherLine(s, line, st) == AppendLine(IF s.tab THEN FlushTab(s, st) ELSE s, line)

\* the loop body of lines 448-488
Branch(kind, s, line, st) ==
    CASE kind = "labelled" -> LabelledLine(s, line, st)
      [] kind = "unlabelled" -> UnlabelledLine(s, line, st)
      [] kind = "separator" -> SeparatorLine(s, line, st)
      [] OTHER -> OtherLine(s, line, st)

DocLine(s, line, st) == Branch(LineKind(line, st), s, line, st)

\* lines 490-494 (the legend of lines 496-500 needs chord_analysis)
DocEnd(s, st) == IF s.tab THEN RenderTab(s, st) ELSE s

\* lines 441-446
DocStart ==
    [resultdoc |-> <<>>, tab |-> FALSE, tabdict |-> <<>>, string_nr |-> 0,
     flushed |-> <<>>, raised |-> FALSE]

RECURSIVE DocLoop(_, _, _)
DocLoop(s, lines, st) ==
    IF Len(lines) = 0 \/ s.raised THEN s
    ELSE DocLoop(DocLine(s, lines[1], st), Tail(lines), st)

\* proces_doc's state at its return, or at the KeyError that ends it
EndUnlessRaised(s, st) == IF s.raised THEN s ELSE DocEnd(s, st)

proces_doc(lines, st) == EndUnlessRaised(DocLoop(DocStart, lines, st), st)

\* the lines a document is made of
DocLines ==
    {   <<"E", "|", "-", "1", "-", "|", "\n">>,
        <<"|", "-", "1", "-", "|", "\n">>,
        <<"x", "|", "y", "\n">>,
        <<"h", "i", "\n">> }

DocSettings == {[DefaultSettings EXCEPT !.write_octaves = wo] : wo \in BOOLEAN}

Current ==
    [resultdoc |-> resultdoc, tab |-> tab, tabdict |-> tabdict,
     string_nr |-> string_nr, flushed |-> flushed, raised |-> FALSE]

Becomes(s, next_pc) ==
    /\ resultdoc' = s.resultdoc
    /\ tab' = s.tab
    /\ tabdict' = s.tabdict
    /\ string_nr' = s.string_nr
    /\ flushed' = s.flushed
    /\ pc' = IF s.raised THEN "KeyError" ELSE next_pc

InitDoc ==
    /\ settings \in DocSettings
    /\ pc = "proces_doc"
    /\ doc = <<>> /\ resultdoc = DocStart.resultdoc /\ tab = DocStart.tab
    /\ tabdict = DocStart.tabdict /\ string_nr = DocStart.string_nr
    /\ flushed = DocStart.flushed
    /\ IdleGroup /\ IdleNote /\ IdleChord

\* the loop of line 448 takes the next line of the document
ReadLine(line, kind) ==
    /\ pc = "proces_doc"
    /\ Len(doc) < MaxDocLen
    /\ LineKind(line, settings) = kind
    /\ doc' = Append(doc, line)
    /\ Becomes(DocLine(Current, line, settings), pc)
    /\ UNCHANGED <<settings, groupVars, noteVars, chordVars>>

ReadLabelledLine == \E line \in DocLines : ReadLine(line, "labelled")
ReadUnlabelledLine == \E line \in DocLines : ReadLine(line, "unlabelled")
ReadSeparatorLine == \E line \in DocLines : ReadLine(line, "separator")
ReadOtherLine == \E line \in DocLines : ReadLine(line, "other")

\* the document ends: lines 490-502
EndOfDoc ==
    /\ pc = "proces_doc"
    /\ Becomes(DocEnd(Current, settings), "done")
    /\ UNCHANGED <<settings, doc, groupVars, noteVars, chordVars>>

NextDoc ==
    \/ ReadLabelledLine
    \/ ReadUnlabelledLine
    \/ ReadSeparatorLine
    \/ ReadOtherLine
    \/ EndOfDoc

SpecDoc == InitDoc /\ [][NextDoc]_vars

-----------------------------------------------------------------------------
(* Pitch resolution: GetNote, then get_note_number on the name it returns *)

\* the pitch names a string label starts with, in either spelling
PitchLabels == {SHARP_NAMES(n) : n \in 0..11} \cup {FLAT_NAMES(n) : n \in 0..11}

\* the octave a string label ends with: none, or that of tuning's strings
OctaveLabels == {<<>>, <<"2">>, <<"3">>, <<"4">>}

StringLabels == {p \o o : p \in PitchLabels, o \in OctaveLabels}

FretValues == {NatToStr(f) : f \in 0..MaxFret}

\* lines 614-632, with flats for args.flats and transpose for args.transpose
NoteSettings ==
    {[DefaultSettings EXCEPT !.write_sharps = ~flats, !.write_flats = flats,
                             !.transpose = t] :
        flats \in BOOLEAN, t \in (0 - MaxTranspose)..MaxTranspose}

InitNote ==
    /\ settings \in NoteSettings
    /\ stringNote \in StringLabels
    /\ fretNum \in FretValues
    /\ name = Idle /\ note_number = None
    /\ pc = "GetNote"
    /\ tabdict = Idle
    /\ IdleGroup /\ IdleDoc /\ IdleChord

\* GetNote returns the name of the fret, or its lookup of line 178 raises
Resolve ==
    /\ pc = "GetNote"
    /\ IF GetNoteRaises(stringNote, fretNum)
       THEN pc' = "KeyError" /\ UNCHANGED name
       ELSE pc' = "get_note_number" /\ name' = GetNote(stringNote, fretNum, settings)
    /\ UNCHANGED <<settings, tabdict, stringNote, fretNum, note_number,
                   groupVars, docVars, chordVars>>

\* get_note_number reads the pitch class back from the name
Recover ==
    /\ pc = "get_note_number"
    /\ note_number' = get_note_number(name)
    /\ pc' = "done"
    /\ UNCHANGED <<settings, tabdict, stringNote, fretNum, name,
                   groupVars, docVars, chordVars>>

NextNote == Resolve \/ Recover

SpecNote == InitNote /\ [][NextNote]_vars

-----------------------------------------------------------------------------
(* Classification: analyze_chord on the names format_notedict collects *)

\* the string whose frets are resolved into the chord
ChordString == <<"E">>

\* the technique mark a chord may hold beside its notes
ChordTechnique == <<"h">>

ChordSettings ==
    {[DefaultSettings EXCEPT !.write_sharps = ~flats, !.write_flats = flats,
                             !.transpose = t, !.chord_analysis = TRUE] :
        flats \in BOOLEAN, t \in {0, 0 - MaxTranspose}}

InitChord ==
    /\ settings \in ChordSettings
    /\ notes = <<>> /\ analysis = Idle
    /\ pc = "chord"
    /\ tabdict = Idle
    /\ IdleGroup /\ IdleDoc /\ IdleNote

\* line 363-364: the name of a fretted note joins the chord
AddNote ==
    /\ pc = "chord"
    /\ Len(notes) < MaxChord
    /\ \E f \in 0..MaxChordFret :
        notes' = Append(notes, GetNote(ChordString, NatToStr(f), settings))
    /\ UNCHANGED <<settings, pc, tabdict, analysis, groupVars, docVars, noteVars>>

\* line 363-364: a technique mark joins the chord as it is
AddTechnique ==
    /\ pc = "chord"
    /\ Len(notes) < MaxChord
    /\ notes' = Append(notes, GetNote(ChordString, ChordTechnique, settings))
    /\ UNCHANGED <<settings, pc, tabdict, analysis, groupVars, docVars, noteVars>>

\* line 372
Analyze ==
    /\ pc = "chord"
    /\ analysis' = analyze_chord(notes)
    /\ pc' = "done"
    /\ UNCHANGED <<settings, tabdict, notes, groupVars, docVars, noteVars>>

NextChord == AddNote \/ AddTechnique \/ Analyze

SpecChord == InitChord /\ [][NextChord]_vars

-----------------------------------------------------------------------------
(* Properties of the timing pipeline (Spec) *)

Grouping == pc \in {"group_by_timing", "format_notedict", "done"}

\* the places <<g, k>> of the groups' members
Slots ==
    UNION {{<<g, k>> : k \in 1..Len(timing_groups[g].val)} :
            g \in 1..Len(timing_groups)}

Member(s) == timing_groups[s[1]].val[s[2]]

SameToken(a, b) == a.string = b.string /\ a.pos = b.pos /\ a.info = b.info

\* the tokens of notedict, as (string, pos, fret_info)
NotedictTokens ==
    UNION {{[string |-> notedict[i].key, pos |-> notedict[i].val[j].key,
             info |-> notedict[i].val[j].val] : j \in 1..Len(notedict[i].val)} :
            i \in 1..Len(notedict)}

\* the slots that hold token t
SlotsOf(t) == {s \in Slots : SameToken(Member(s), t)}

\* the place of a member in the processing order
Order(e) == CHOOSE i \in 1..Len(all_frets) : SameToken(all_frets[i], e)

\* the relation of the claims, on column spans
SpansRelated(a, b) ==
    \/ \E c \in a.start..a.end : b.start <= c /\ c <= b.end
    \/ a.start - b.start \in {-1, 0, 1}
    \/ a.end - b.end \in {-1, 0, 1}

(* C1: every token given to group_by_timing is in exactly one timing cluster:
   none is missing, none is in two clusters, and opening a cluster never
   overwrites a cluster stored under the same key column.  While the loop runs
   this holds of the tokens placed so far. *)
C1_Coverage ==
    Grouping =>
        /\ \A t \in NotedictTokens :
            Cardinality({i \in 1..Len(all_frets) : SameToken(all_frets[i], t)}) = 1
        /\ Len(all_frets) = Cardinality(NotedictTokens)
        /\ \A i \in 1..fi : Cardinality(SlotsOf(all_frets[i])) = 1
        /\ \A s \in Slots : \E i \in 1..fi : SameToken(all_frets[i], Member(s))
        /\ \A g, h \in 1..Len(timing_groups) :
            timing_groups[g].key = timing_groups[h].key => g = h
        /\ (pc # "group_by_timing" => fi = Len(all_frets))

\* a token arrived whose column is the key of a cluster that exists, and joined
C1_Witness ==
    /\ pc = "done"
    /\ Len(timing_groups) >= 2
    /\ \E s \in Slots :
        /\ s[2] > 1
        /\ \E g \in 1..Len(timing_groups) : timing_groups[g].key = Member(s).pos

(* C2: the note line holds one rendering per cluster of group_by_timing, in
   ascending key-column order, each with one pitch or technique string per
   member: no cluster is skipped. *)
C2_OneRenderingPerCluster ==
    pc = "done" =>
        /\ Len(result) = Len(timing_groups)
        /\ \A r \in 1..Len(chords) :
            /\ chords[r].pos = sorted_positions[r]
            /\ Len(chords[r].chord) = Len(DictGet(timing_groups, chords[r].pos))
        /\ \A r \in 1..(Len(chords) - 1) : chords[r].pos < chords[r + 1].pos

(* C3: two tokens of different strings share a cluster if and only if their
   spans overlap, or their starts differ by at most 1, or their ends differ by
   at most 1. *)
C3_IffRelated ==
    pc = "done" =>
        \A s, t \in Slots :
            Member(s).string # Member(t).string =>
                (s[1] = t[1] <=> SpansRelated(Member(s).info, Member(t).info))

(* C3 as amended: a token that joins a cluster is related (overlap, starts
   within 1, ends within 1) to a token placed in that cluster before it, and to
   no token placed before it in a cluster created earlier; a token that opens a
   cluster is related to no token placed before it. *)
C3_FirstRelatedCluster ==
    Grouping =>
        \A s \in Slots :
            /\ s[2] > 1 =>
                \E j \in 1..(s[2] - 1) :
                    SpansRelated(Member(s).info, Member(<<s[1], j>>).info)
            /\ \A t \in Slots :
                (/\ Order(Member(t)) < Order(Member(s))
                 /\ (t[1] < s[1] \/ s[2] = 1))
                    => ~SpansRelated(Member(s).info, Member(t).info)

\* a token joined the first related cluster though a later cluster holds a
\* token related to it
C3_Witness ==
    /\ pc = "done"
    /\ \E s, t \in Slots :
        /\ s[1] < t[1]
        /\ s[2] > 1
        /\ SpansRelated(Member(s).info, Member(t).info)

(* C9: no timing cluster holds two tokens of the same string. *)
C9_DistinctStrings ==
    Grouping =>
        \A s, t \in Slots :
            (s[1] = t[1] /\ s[2] # t[2]) => Member(s).string # Member(t).string

(* C10: a token is flagged uncertain exactly when it has width 1 and starts
   strictly before a member, of width above 1, of the cluster it joins; a token
   that opens a cluster is never flagged; a rendering ends with the '?' suffix
   exactly when a member of its cluster is flagged. *)
C10_UncertainFlag ==
    /\ Grouping =>
        \A s \in Slots :
            Member(s).uncertain <=>
                /\ s[2] > 1
                /\ Member(s).info.width = 1
                /\ \E j \in 1..(s[2] - 1) :
                    /\ Member(s).info.start < Member(<<s[1], j>>).info.start
                    /\ Member(<<s[1], j>>).info.width > 1
    /\ pc \in {"format_notedict", "done"} =>
        \A r \in 1..Len(result) :
            LET group == DictGet(timing_groups, chords[r].pos)
                flagged == \E k \in 1..Len(group) : group[k].uncertain
            IN  /\ chords[r].is_uncertain = flagged
                /\ result[r][Len(result[r])] = "?" <=> flagged

\* a token of width 1 joined a cluster beside a wider member and was rendered
C10_Witness ==
    /\ pc = "done"
    /\ \E s \in Slots :
        /\ s[2] > 1
        /\ Member(s).info.width = 1
        /\ \E j \in 1..(s[2] - 1) : Member(<<s[1], j>>).info.width > 1
        /\ \E r \in 1..Len(result) : chords[r].pos = timing_groups[s[1]].key

(* C12: every member of a cluster starts at or before each member that joined
   the cluster after it, no member of any cluster is flagged uncertain, and
   every rendering of format_notedict is the rendering of its chord without
   the '?' suffix. *)
C12_NeverUncertain ==
    /\ Grouping =>
        \A s \in Slots :
            /\ ~Member(s).uncertain
            /\ \A j \in 1..(s[2] - 1) :
                Member(<<s[1], j>>).info.start <= Member(s).info.start
    /\ pc \in {"format_notedict", "done"} =>
        \A r \in 1..Len(result) :
            /\ ~chords[r].is_uncertain
            /\ result[r] = ChordStr(chords[r].chord, FALSE, settings)
            /\ result[r][Len(result[r])] # "?"

\* a token of width 1 joined a cluster whose wider member starts at the same
\* column, and the cluster was rendered
C12_Witness ==
    /\ pc = "done"
    /\ \E s \in Slots :
        /\ s[2] > 1
        /\ Member(s).info.width = 1
        /\ \E j \in 1..(s[2] - 1) :
            /\ Member(<<s[1], j>>).info.width > 1
            /\ Member(<<s[1], j>>).info.start = Member(s).info.start
        /\ \E r \in 1..Len(result) :
            /\ chords[r].pos = timing_groups[s[1]].key
            /\ Len(chords[r].chord) = Len(timing_groups[s[1]].val)

-----------------------------------------------------------------------------
(* Properties of the document driver (SpecDoc) *)

\* a tab-block line: it contains the tuning separator, and the text before
\* the separator is a pitch name, or is empty with the separator leading
TabBlockLine(line) ==
    /\ Contains(line, settings.tuning_separator)
    /\ \/ IsTuningName(LineNoteName(line, settings))
       \/ /\ LineNoteName(line, settings) = <<>>
          /\ StartsWith(line, settings.tuning_separator)

\* the lengths of the maximal runs of tab-block lines, in document order
RECURSIVE RunLengths(_, _)
RunLengths(lines, run) ==
    IF Len(lines) = 0 THEN IF run > 0 THEN <<run>> ELSE <<>>
    ELSE IF TabBlockLine(lines[1]) THEN RunLengths(Tail(lines), run + 1)
    ELSE (IF run > 0 THEN <<run>> ELSE <<>>) \o RunLengths(Tail(lines), 0)

\* the length of the run of tab-block lines the document read so far ends with
RECURSIVE OpenRun(_)
OpenRun(lines) ==
    IF Len(lines) = 0 \/ ~TabBlockLine(lines[Len(lines)]) THEN 0
    ELSE 1 + OpenRun(DropLast(lines))

\* the result the blocks in handed (from the k-th on) and the other lines
\* make, each at its place in document order
RECURSIVE Placed(_, _, _, _)
Placed(lines, handed, k, open) ==
    LET block == IF open THEN proces_tabdict(handed[k], settings) ELSE <<>>
    IN  IF Len(lines) = 0 THEN block
        ELSE IF TabBlockLine(lines[1]) THEN Placed(Tail(lines), handed, k, TRUE)
        ELSE block
             \o (IF Contains(lines[1], settings.tuning_separator)
                 THEN <<>> ELSE <<lines[1]>>)
             \o Placed(Tail(lines), handed, IF open THEN k + 1 ELSE k, FALSE)

(* C4: while proces_doc reads the document, the open block holds one tabdict
   entry per line of the run of tab-block lines read last, and the string
   counter and the tabdict are empty outside a run; when proces_doc returns,
   every maximal run has gone to proces_tabdict exactly once, with one entry
   per line, and its rendering stands in the result at the run's place. *)
C4_RunsFlushedWhole ==
    /\ pc = "proces_doc" =>
        /\ tab = (OpenRun(doc) > 0)
        /\ string_nr = OpenRun(doc)
        /\ Len(tabdict) = OpenRun(doc)
    /\ pc = "done" =>
        /\ [k \in 1..Len(flushed) |-> Len(flushed[k])] = RunLengths(doc, 0)
        /\ resultdoc = Placed(doc, flushed, 1, FALSE)

(* C5: when proces_doc returns, the lines of the document that are not
   tab-block lines are, in the document's order and each as often as the
   document has it, the lines of the result that are lines of this kind. *)
C5_OtherLinesPassThrough ==
    pc = "done" =>
        LET others == SelectSeq(doc, LAMBDA l : ~TabBlockLine(l))
        IN  SelectSeq(resultdoc, LAMBDA l : l \in Elems(others)) = others

(* C6: running proces_doc on the result of proces_doc, under the same
   settings, returns that result again. *)
C6_Idempotent ==
    pc = "done" =>
        /\ ~proces_doc(resultdoc, settings).raised
        /\ proces_doc(resultdoc, settings).resultdoc = resultdoc

(* C11: proces_doc never stops at a failed lookup into the tuning map: every
   string index it looks up is one of the map's indices 1..6, whatever the
   number of consecutive tab-block lines. *)
C11_TuningLookupInRange ==
    pc = "KeyError" => string_nr \in DOMAIN tuning

-----------------------------------------------------------------------------
(* Properties of pitch resolution (SpecNote) *)

\* the semitone of the fret above C of the label's base octave, transposed
Semitone ==
    NOTES_SHARPS(SelectSeq(stringNote, NotDigit)) + StrToInt(fretNum)
        + settings.transpose

Spelled(n) == IF settings.write_flats THEN FLAT_NAMES(n) ELSE SHARP_NAMES(n)

(* C8: the name GetNote returns is the spelling of the pitch class
   (open + fret + transpose) mod 12 followed by the octave
   base + floor((open + fret + transpose) / 12), get_note_number recovers
   that pitch class from the name, and with 12 more semitones of transpose
   GetNote returns the same spelling followed by the next octave. *)
C8_RoundTrip ==
    pc = "done" =>
        /\ note_number = Semitone % 12
        /\ name = Spelled(Semitone % 12)
                    \o IntToStr(BaseOctave(stringNote) + (Semitone \div 12))
        /\ GetNote(stringNote, fretNum,
                   [settings EXCEPT !.transpose = @ + 12])
            = Spelled(Semitone % 12)
                \o IntToStr(BaseOctave(stringNote) + (Semitone \div 12) + 1)

-----------------------------------------------------------------------------
(* Properties of classification (SpecChord) *)

\* the pitch classes get_note_number finds in the chord
Classes == {get_note_number(notes[k]) : k \in 1..Len(notes)} \ {None}

Lowest == CHOOSE n \in Classes : \A m \in Classes : n <= m
Highest == CHOOSE n \in Classes : \A m \in Classes : m <= n

====
